---- MODULE Spec2Model ----
(***************************************************************************)
(* Model of streamlit_app.py: the static feature extractor                 *)
(* (FeatureExtractor, extract_features_and_code_from_file), the prediction *)
(* adapter (predict_for_features) and the per-file processing loop.        *)
(*                                                                         *)
(* A module path or library name is modelled as the sequence of its        *)
(* dot-free segments ("torch.nn" is <<"torch", "nn">>, "os" is <<"os">>,   *)
(* "" is <<"">>), so that str.split('.') is the list of its one-segment    *)
(* strings.  A Python value held by a feature record is tagged with its    *)
(* type; a str value is the sequence of its characters.                    *)
(*                                                                         *)
(* A parsed program is the sequence of its nodes of the kinds the code     *)
(* looks at, numbered in pre-order; each node names its nearest enclosing  *)
(* such node (0 is the Module).                                            *)
(***************************************************************************)
EXTENDS Integers, Sequences, FiniteSets, TLC

VARIABLES
    \* FeatureExtractor(ast.NodeVisitor), one traversal
    tree, stack, current_depth, max_loop_depth, file_io_calls,
    \* extract_features_and_code_from_file, one call
    file, extracted,
    \* predict_for_features, one call
    record, model_raises, predicted,
    \* the per-file processing loop
    files_to_process, idx, pc, features_dict, source_code, prediction,
    extract_calls, predict_calls, recommend_calls

walkVars == <<tree, stack, current_depth, max_loop_depth, file_io_calls>>
extractVars == <<file, extracted>>
predictVars == <<record, model_raises, predicted>>
loopVars == <<files_to_process, idx, pc, features_dict, source_code, prediction,
              extract_calls, predict_calls, recommend_calls>>
vars == <<walkVars, extractVars, predictVars, loopVars>>

----------------------------------------------------------------------------
\* Bounds of the model

MaxNodes == 3
MaxBlankLines == 1
MaxFiles == 2
MaxSwaps == 1
MaxBad == 1
MaxOffset == 1

----------------------------------------------------------------------------
\* Python values

None == [t |-> "None"]
Unbound == [t |-> "unbound"]
NaN == [t |-> "nan"]

Max(a, b) == IF a >= b THEN a ELSE b

\* a str that names a module or a library, by its dot-free segments
Str(segments) == [t |-> "str", s |-> segments]

\* str.split('.')
Split(name) == [i \in 1..Len(name.s) |-> Str(<<name.s[i]>>)]

\* truth value of a str or None
Truthy(x) == x /= None /\ x /= Str(<<"">>)

----------------------------------------------------------------------------
\* Configuration

FEATURES_ORDER ==
    <<"LOC", "No_of_Functions", "No_of_Classes", "No_of_Loops",
      "Loop_Nesting_Depth", "No_of_Conditional_Blocks", "Import_Score",
      "I/O Calls">>

library_weights ==
    (Str(<<"torch">>) :> 10) @@ (Str(<<"tensorflow">>) :> 10) @@ (Str(<<"jax">>) :> 9) @@
    (Str(<<"keras">>) :> 9) @@ (Str(<<"transformers">>) :> 9) @@ (Str(<<"lightgbm">>) :> 8) @@
    (Str(<<"xgboost">>) :> 8) @@ (Str(<<"catboost">>) :> 8) @@ (Str(<<"sklearn">>) :> 7) @@
    (Str(<<"scikit-learn">>) :> 7) @@ (Str(<<"pandas">>) :> 6) @@ (Str(<<"numpy">>) :> 6) @@
    (Str(<<"dask">>) :> 7) @@ (Str(<<"polars">>) :> 6) @@ (Str(<<"matplotlib">>) :> 4) @@
    (Str(<<"seaborn">>) :> 4) @@ (Str(<<"plotly">>) :> 5) @@ (Str(<<"bokeh">>) :> 5) @@
    (Str(<<"altair">>) :> 4) @@ (Str(<<"cv2">>) :> 6) @@ (Str(<<"PIL">>) :> 4) @@
    (Str(<<"imageio">>) :> 3) @@ (Str(<<"scikit-image">>) :> 4) @@ (Str(<<"nltk">>) :> 5) @@
    (Str(<<"spacy">>) :> 6) @@ (Str(<<"gensim">>) :> 5) @@ (Str(<<"requests">>) :> 2) @@
    (Str(<<"httpx">>) :> 2) @@ (Str(<<"urllib">>) :> 1) @@ (Str(<<"aiohttp">>) :> 3) @@
    (Str(<<"fastapi">>) :> 4) @@ (Str(<<"flask">>) :> 3) @@ (Str(<<"django">>) :> 5) @@
    (Str(<<"openpyxl">>) :> 3) @@ (Str(<<"csv">>) :> 1) @@ (Str(<<"json">>) :> 1) @@
    (Str(<<"sqlite3">>) :> 2) @@ (Str(<<"sqlalchemy">>) :> 3) @@ (Str(<<"h5py">>) :> 4) @@
    (Str(<<"pickle">>) :> 2) @@ (Str(<<"os">>) :> 1) @@ (Str(<<"sys">>) :> 1) @@
    (Str(<<"shutil">>) :> 1) @@ (Str(<<"glob">>) :> 1) @@ (Str(<<"pathlib">>) :> 1) @@
    (Str(<<"math">>) :> 1) @@ (Str(<<"statistics">>) :> 1) @@ (Str(<<"scipy">>) :> 5) @@
    (Str(<<"datetime">>) :> 1) @@ (Str(<<"time">>) :> 1) @@ (Str(<<"calendar">>) :> 1) @@
    (Str(<<"re">>) :> 1) @@ (Str(<<"argparse">>) :> 1) @@ (Str(<<"typing">>) :> 1) @@
    (Str(<<"logging">>) :> 1) @@ (Str(<<"threading">>) :> 2) @@
    (Str(<<"multiprocessing">>) :> 3) @@ (Str(<<"concurrent">>) :> 3) @@
    (Str(<<"subprocess">>) :> 3) @@ (Str(<<"random">>) :> 1) @@ (Str(<<"uuid">>) :> 1) @@
    (Str(<<"hashlib">>) :> 1) @@ (Str(<<"base64">>) :> 1) @@ (Str(<<"decimal">>) :> 1) @@
    (Str(<<"boto3">>) :> 6) @@ (Str(<<"google", "cloud">>) :> 6) @@ (Str(<<"azure">>) :> 6) @@
    (Str(<<"pyspark">>) :> 9) @@ (Str(<<"IPython">>) :> 2) @@ (Str(<<"jupyter">>) :> 2)

\* library_weights.get(lib, 2)
library_weights_get(lib) ==
    IF lib \in DOMAIN library_weights THEN library_weights[lib] ELSE 2

file_io_funcs ==
    {"open", "read", "write", "remove", "rename", "copy", "seek", "tell", "flush"}

----------------------------------------------------------------------------
\* Syntax trees (what ast.parse returns)

LoopKinds == {"For", "While"}
CompoundKinds == {"For", "While", "If", "FunctionDef", "ClassDef"}
StatementKinds == CompoundKinds \cup {"Import", "ImportFrom"}

Stmt(k) == [kind |-> k]
Import(names) == [kind |-> "Import", names |-> names]
ImportFrom(module) == [kind |-> "ImportFrom", module |-> module]
CallName(id) == [kind |-> "Call", func |-> [kind |-> "Name", id |-> id]]
CallAttribute(attr) == [kind |-> "Call", func |-> [kind |-> "Attribute", attr |-> attr]]
\* a call whose callee is itself a call, a subscript, a lambda, ...
CallOther == [kind |-> "Call", func |-> [kind |-> "Other"]]

Kind(t, n) == IF n = 0 THEN "Module" ELSE t[n].node.kind

\* the nodes from n up to the Module, n included
RECURSIVE Path(_, _)
Path(t, n) == IF n = 0 THEN {0} ELSE {n} \cup Path(t, t[n].parent)

\* ast.iter_child_nodes(n), in source order
Children(t, n) ==
    LET RECURSIVE Kids(_)
        Kids(i) == IF i > Len(t) THEN <<>>
                   ELSE IF t[i].parent = n THEN <<i>> \o Kids(i + 1)
                   ELSE Kids(i + 1)
    IN Kids(1)

\* Whether a node of kind k can stand right under node p, coming next in
\* pre-order after the nodes of t: statements stand in the Module or in the
\* body of a compound statement, a call stands in any of these or inside
\* another call, and nothing stands inside an import.
CanAttach(t, p, k) ==
    /\ p \in Path(t, Len(t))
    /\ Kind(t, p) \notin {"Import", "ImportFrom"}
    /\ k \in StatementKinds => Kind(t, p) /= "Call"

RECURSIVE TreesOfSize(_, _)
TreesOfSize(labels, n) ==
    IF n = 0 THEN {<<>>}
    ELSE {Append(t, [node |-> l, parent |-> p]) :
            <<t, l, p>> \in {x \in TreesOfSize(labels, n - 1) \X labels \X (0..(n - 1)) :
                               CanAttach(x[1], x[3], x[2].kind)}}

RECURSIVE TreesUpTo(_, _)
TreesUpTo(labels, n) ==
    IF n = 0 THEN TreesOfSize(labels, 0)
    ELSE TreesUpTo(labels, n - 1) \cup TreesOfSize(labels, n)

Trees(labels) == TreesUpTo(labels, MaxNodes)

----------------------------------------------------------------------------
\* class FeatureExtractor(ast.NodeVisitor), step by step.  stack holds the
\* calls of visit in progress: the node and its children still to visit.

Frame(t, n) == [node |-> n, todo |-> Children(t, n)]

Top == stack[Len(stack)]
Pop == SubSeq(stack, 1, Len(stack) - 1)
\* the running call visits its next child c
Descend(c) == Append([stack EXCEPT ![Len(stack)].todo = Tail(@)], Frame(tree, c))
NextChild == Head(Top.todo)
Visiting(k) == /\ stack /= <<>>
               /\ Top.todo /= <<>>
               /\ Kind(tree, NextChild) = k

\* visit_For up to its generic_visit
visit_For ==
    /\ Visiting("For")
    /\ current_depth' = current_depth + 1
    /\ max_loop_depth' = Max(max_loop_depth, current_depth + 1)
    /\ stack' = Descend(NextChild)
    /\ UNCHANGED <<tree, file_io_calls, extractVars, predictVars, loopVars>>

\* visit_While that leaves the depth alone on the way in
visit_While_no_depth ==
    /\ Visiting("While")
    /\ stack' = Descend(NextChild)
    /\ UNCHANGED <<tree, current_depth, max_loop_depth, file_io_calls,
                   extractVars, predictVars, loopVars>>

\* visit_While up to its generic_visit
visit_While ==
    /\ Visiting("While")
    /\ current_depth' = current_depth + 1
    /\ max_loop_depth' = Max(max_loop_depth, current_depth + 1)
    /\ stack' = Descend(NextChild)
    /\ UNCHANGED <<tree, file_io_calls, extractVars, predictVars, loopVars>>

\* func_name with the attribute case left out
func_name_bare_only(node) ==
    IF node.func.kind = "Name" THEN node.func.id ELSE "None"

\* func_name of visit_Call
func_name(node) ==
    IF node.func.kind = "Name" THEN node.func.id
    ELSE IF node.func.kind = "Attribute" THEN node.func.attr
    ELSE "None"

\* visit_Call up to its generic_visit
visit_Call ==
    /\ Visiting("Call")
    /\ file_io_calls' = IF func_name(tree[NextChild].node) \in file_io_funcs
                        THEN file_io_calls + 1 ELSE file_io_calls
    /\ stack' = Descend(NextChild)
    /\ UNCHANGED <<tree, current_depth, max_loop_depth, extractVars, predictVars, loopVars>>

\* NodeVisitor.visit of a node with no visit_ method: generic_visit
generic_visit ==
    /\ stack /= <<>>
    /\ Top.todo /= <<>>
    /\ Kind(tree, NextChild) \notin {"For", "While", "Call"}
    /\ stack' = Descend(NextChild)
    /\ UNCHANGED <<tree, current_depth, max_loop_depth, file_io_calls,
                   extractVars, predictVars, loopVars>>

\* generic_visit of a loop has visited every child: visit_For and
\* visit_While decrement the depth and return
return_loop ==
    /\ stack /= <<>>
    /\ Top.todo = <<>>
    /\ Kind(tree, Top.node) \in LoopKinds
    /\ current_depth' = current_depth - 1
    /\ stack' = Pop
    /\ UNCHANGED <<tree, max_loop_depth, file_io_calls, extractVars, predictVars, loopVars>>

\* generic_visit of any other node has visited every child and returns
return_visit ==
    /\ stack /= <<>>
    /\ Top.todo = <<>>
    /\ Kind(tree, Top.node) \notin LoopKinds
    /\ stack' = Pop
    /\ UNCHANGED <<tree, current_depth, max_loop_depth, file_io_calls,
                   extractVars, predictVars, loopVars>>

WalkLabels ==
    {Stmt("For"), Stmt("While"), Stmt("If"),
     CallName("open"), CallAttribute("read"), CallAttribute("readline"), CallOther}

IdleWalk ==
    /\ tree = <<>> /\ stack = <<>>
    /\ current_depth = 0 /\ max_loop_depth = 0 /\ file_io_calls = 0
IdleExtract == file = None /\ extracted = None
IdlePredict == record = None /\ model_raises = FALSE /\ predicted = None
IdleLoop ==
    /\ files_to_process = <<>> /\ idx = 0 /\ pc = "idle"
    /\ features_dict = None /\ source_code = None /\ prediction = None
    /\ extract_calls = <<>> /\ predict_calls = <<>> /\ recommend_calls = <<>>

\* extractor = FeatureExtractor(); extractor.visit(tree)
InitWalk ==
    /\ tree \in Trees(WalkLabels)
    /\ stack = <<Frame(tree, 0)>>
    /\ current_depth = 0 /\ max_loop_depth = 0 /\ file_io_calls = 0
    /\ IdleExtract /\ IdlePredict /\ IdleLoop

NextWalk ==
    \/ visit_For
    \/ visit_While
    \/ visit_Call
    \/ generic_visit
    \/ return_loop
    \/ return_visit

SpecWalk == InitWalk /\ [][NextWalk]_vars

----------------------------------------------------------------------------
\* Source files.  A text is what f.read() returns: the number of lines
\* str.splitlines() splits it into (0 only for the empty string), whether
\* ast.parse accepts it, and the tree ast.parse then returns.

Text(lines, parses, ast) == [t |-> "str", lines |-> lines, parses |-> parses, ast |-> ast]
Unreadable == [readable |-> FALSE]
Readable(text) == [readable |-> TRUE, text |-> text]

\* the deepest nesting of compound statements: each needs a line of its own
CompoundDepth(t) ==
    LET D(n) == Cardinality({m \in Path(t, n) : Kind(t, m) \in CompoundKinds})
    IN IF t = <<>> THEN 0
       ELSE CHOOSE d \in {D(n) : n \in 1..Len(t)} : \A n \in 1..Len(t) : D(n) <= d

Texts(labels) ==
    {Text(0, TRUE, <<>>)}
    \cup {Text(n, FALSE, <<>>) : n \in 1..(1 + MaxBlankLines)}
    \cup {Text(Max(1, CompoundDepth(x[1])) + x[2], TRUE, x[1]) :
            x \in Trees(labels) \X (0..MaxBlankLines)}

Files(labels) == {Unreadable} \cup {Readable(x) : x \in Texts(labels)}

----------------------------------------------------------------------------
\* extract_features_and_code_from_file

PyInt(n) == [t |-> "int", v |-> n]
PyStr(chars) == [t |-> "str", chars |-> chars]
PyDict(items) == [t |-> "dict", items |-> items]

\* ast.walk(tree): breadth first, the children of a node in source order
walk(t) ==
    LET RECURSIVE Bfs(_, _)
        Bfs(todo, out) ==
            IF todo = <<>> THEN out
            ELSE Bfs(Tail(todo) \o Children(t, Head(todo)), Append(out, Head(todo)))
    IN Bfs(<<0>>, <<>>)

\* sum(isinstance(node, kinds) for node in ast.walk(tree))
count_nodes(t, kinds) ==
    LET nodes == walk(t)
    IN Cardinality({i \in 1..Len(nodes) : Kind(t, nodes[i]) \in kinds})

num_functions(t) == count_nodes(t, {"FunctionDef"})
num_classes(t) == count_nodes(t, {"ClassDef"})
\* num_loops with the while loops left out
num_loops_for_only(t) == count_nodes(t, {"For"})
num_loops(t) == count_nodes(t, {"For", "While"})
num_conditional_blocks(t) == count_nodes(t, {"If"})

\* the whole dotted path taken for the library name
top_level_whole_path(name) == name

\* name.name.split('.')[0] and node.module.split('.')[0]
top_level(name) == Split(name)[1]

\* for name in node.names: lib = ...; if lib: imported_libs.add(lib); num_imports += 1
RECURSIVE import_names(_, _)
import_names(names, s) ==
    IF names = <<>> THEN s
    ELSE LET lib == top_level(Head(names))
         IN import_names(Tail(names),
                [s EXCEPT !.lib = lib,
                          !.imported_libs = IF Truthy(lib) THEN @ \cup {lib} ELSE @,
                          !.num_imports = @ + 1])

\* the body of "for node in ast.walk(tree)"; reading lib before any
\* assignment to it raises UnboundLocalError
import_node(node, s) ==
    IF node.kind = "Import" THEN import_names(node.names, s)
    ELSE IF node.kind = "ImportFrom" THEN
        LET lib == IF Truthy(node.module) THEN top_level(node.module) ELSE s.lib
        IN IF lib = Unbound THEN [s EXCEPT !.raised = TRUE]
           ELSE [s EXCEPT !.lib = lib,
                          !.imported_libs = IF Truthy(lib) THEN @ \cup {lib} ELSE @,
                          !.num_imports = @ + 1]
    ELSE s

\* num_imports = 0; imported_libs = set(); for node in ast.walk(tree): ...
import_loop(t) ==
    LET RECURSIVE Loop(_, _)
        Loop(order, s) ==
            IF order = <<>> \/ s.raised THEN s
            ELSE Loop(Tail(order),
                      IF Head(order) = 0 THEN s ELSE import_node(t[Head(order)].node, s))
    IN Loop(walk(t), [lib |-> Unbound, imported_libs |-> {}, num_imports |-> 0,
                      raised |-> FALSE])

\* sum(library_weights.get(lib, 2) for lib in imported_libs)
RECURSIVE weighted_import_score(_)
weighted_import_score(imported_libs) ==
    IF imported_libs = {} THEN 0
    ELSE LET lib == CHOOSE x \in imported_libs : TRUE
         IN library_weights_get(lib) + weighted_import_score(imported_libs \ {lib})

\* extractor = FeatureExtractor(); extractor.visit(tree), as one call
RECURSIVE NodeVisitor_visit(_, _, _)
NodeVisitor_visit(t, n, self) ==
    LET RECURSIVE GenericVisit(_, _)
        GenericVisit(todo, s) ==
            IF todo = <<>> THEN s
            ELSE GenericVisit(Tail(todo), NodeVisitor_visit(t, Head(todo), s))
    IN IF Kind(t, n) \in LoopKinds THEN
            LET entered == [self EXCEPT
                              !.current_depth = @ + 1,
                              !.max_loop_depth = Max(@, self.current_depth + 1)]
            IN [GenericVisit(Children(t, n), entered) EXCEPT !.current_depth = @ - 1]
       ELSE IF Kind(t, n) = "Call" THEN
            GenericVisit(Children(t, n),
                [self EXCEPT !.file_io_calls =
                    IF func_name(t[n].node) \in file_io_funcs THEN @ + 1 ELSE @])
       ELSE GenericVisit(Children(t, n), self)

FeatureExtractor_visit(t) ==
    NodeVisitor_visit(t, 0, [max_loop_depth |-> 0, current_depth |-> 0, file_io_calls |-> 0])

Returns(f, s) == [outcome |-> "return", features_dict |-> f, source_code |-> s]
Raises(e) == [outcome |-> "raise", exception |-> e]

extract_features_and_code_from_file(f) ==
    IF ~f.readable THEN Returns(None, None)
    ELSE IF ~f.text.parses THEN Returns(None, f.text)
    ELSE LET t == f.text.ast
             imports == import_loop(t)
             extractor == FeatureExtractor_visit(t)
         IN IF imports.raised THEN Raises("UnboundLocalError")
            ELSE Returns(
                PyDict(<<
                  [key |-> "LOC", value |-> PyInt(f.text.lines)],
                  [key |-> "No_of_Functions", value |-> PyInt(num_functions(t))],
                  [key |-> "No_of_Classes", value |-> PyInt(num_classes(t))],
                  [key |-> "No_of_Loops", value |-> PyInt(num_loops(t))],
                  [key |-> "Loop_Nesting_Depth", value |-> PyInt(extractor.max_loop_depth)],
                  [key |-> "No_of_Conditional_Blocks",
                   value |-> PyInt(num_conditional_blocks(t))],
                  [key |-> "Import_Score",
                   value |-> PyInt(weighted_import_score(imports.imported_libs))],
                  [key |-> "I/O Calls", value |-> PyInt(extractor.file_io_calls)]>>),
                f.text)

\* features_dict[key]
Field(d, key) == d.items[CHOOSE i \in 1..Len(d.items) : d.items[i].key = key].value

\* programs of imports, some of them inside functions
ImportLabels ==
    {Stmt("FunctionDef"),
     Import(<<Str(<<"torch">>)>>), Import(<<Str(<<"os", "path">>), Str(<<"mylib">>)>>),
     ImportFrom(None), ImportFrom(Str(<<"torch", "nn">>)),
     ImportFrom(Str(<<"google", "cloud">>))}

\* programs of loops, conditionals, definitions and calls
CountLabels ==
    {Stmt("For"), Stmt("While"), Stmt("If"), Stmt("FunctionDef"), Stmt("ClassDef"),
     CallName("open"), Import(<<Str(<<"numpy">>)>>)}

Extract ==
    /\ file /= None
    /\ extracted = None
    /\ extracted' = extract_features_and_code_from_file(file)
    /\ UNCHANGED <<file, walkVars, predictVars, loopVars>>

InitExtract ==
    /\ \/ file \in Files(ImportLabels)
       \/ file \in Files(CountLabels)
    /\ extracted = None
    /\ IdleWalk /\ IdlePredict /\ IdleLoop

NextExtract == Extract

SpecExtract == InitExtract /\ [][NextExtract]_vars

----------------------------------------------------------------------------
\* predict_for_features

Digits == <<"0", "1", "2", "3", "4", "5", "6", "7", "8", "9">>
IsDigit(c) == \E d \in 1..Len(Digits) : Digits[d] = c
DigitValue(c) == (CHOOSE d \in 1..Len(Digits) : Digits[d] = c) - 1

\* the number a string of decimal digits denotes
RECURSIVE ParseDigits(_, _)
ParseDigits(chars, acc) ==
    IF chars = <<>> THEN acc
    ELSE ParseDigits(Tail(chars), acc * Len(Digits) + DigitValue(Head(chars)))

\* pd.to_numeric(value, errors='coerce') of a scalar: a number as it is, a
\* str parsed, and NaN for what does not parse
to_numeric(value) ==
    IF value.t = "int" THEN value
    ELSE IF value.t = "str" /\ value.chars /= <<>>
            /\ \A i \in 1..Len(value.chars) : IsDigit(value.chars[i])
         THEN PyInt(ParseDigits(value.chars, 0))
    ELSE NaN

\* {key: [pd.to_numeric(value, errors='coerce')] for key, value in features_dict.items()}
input_features(d) ==
    [i \in 1..Len(d.items) |-> [key |-> d.items[i].key, value |-> to_numeric(d.items[i].value)]]

\* pd.DataFrame(input_features), the columns in the order of insertion
DataFrame_insertion_order(features, columns) ==
    [c \in 1..Len(features) |-> features[c].value]

\* pd.DataFrame(input_features, columns=FEATURES_ORDER): the one row, a
\* column that input_features does not have holding NaN
DataFrame(features, columns) ==
    [c \in 1..Len(columns) |->
        IF \E i \in 1..Len(features) : features[i].key = columns[c]
        THEN features[CHOOSE i \in 1..Len(features) : features[i].key = columns[c]].value
        ELSE NaN]

\* the DataFrame predict_for_features builds
input_df(d) == DataFrame(input_features(d), FEATURES_ORDER)

\* isnull looked up in the first column only
isnull_first(row) == row[1] = NaN

\* input_df.isnull().values.any()
isnull_any(row) == \E c \in 1..Len(row) : row[c] = NaN

NonNumericError == "Error: Non-numeric values found in extracted features during prediction step."
PredictionStepError == "Error during prediction step"

\* what model.predict(input_df)[0] evaluates to
Prediction(row) == [t |-> "float", predicted_from |-> row]

\* predict_for_features(model, features_dict): the rows handed to
\* model.predict, what st.error showed and the value returned.  raises says
\* whether model.predict raises.
predict_for_features(raises, d) ==
    LET row == input_df(d)
    IN IF isnull_any(row)
       THEN [model_calls |-> <<>>, errors |-> <<NonNumericError>>, returns |-> None]
       ELSE IF raises
       THEN [model_calls |-> <<row>>, errors |-> <<PredictionStepError>>, returns |-> None]
       ELSE [model_calls |-> <<row>>, errors |-> <<>>, returns |-> Prediction(row)]

Swap(seq, i, j) == [seq EXCEPT ![i] = seq[j], ![j] = seq[i]]

\* the orders of insertion that are at most n exchanges of neighbours away
\* from FEATURES_ORDER
RECURSIVE Orders(_)
Orders(n) ==
    IF n = 0 THEN {FEATURES_ORDER}
    ELSE Orders(n - 1) \cup
         {Swap(x[1], x[2], x[2] + 1) :
            x \in Orders(n - 1) \X (1..(Len(FEATURES_ORDER) - 1))}

\* values a field can hold in place of a count
OddValues == {PyStr(<<"a", "b", "c">>), PyStr(<<"1", "2">>), PyStr(<<>>), None}

\* the key is not inserted at all
Missing == [t |-> "missing"]

Keys == {FEATURES_ORDER[i] : i \in 1..Len(FEATURES_ORDER)}

\* at most MaxBad keys, each with an odd value or left out
Changes ==
    UNION {[bad -> OddValues \cup {Missing}] :
             bad \in {b \in SUBSET Keys : Cardinality(b) <= MaxBad}}

\* the record of eight distinct counts, changed, with its keys inserted in
\* the given order
Record(order, change, offset) ==
    LET Position(k) == CHOOSE i \in 1..Len(FEATURES_ORDER) : FEATURES_ORDER[i] = k
        Left(k) == k \in DOMAIN change /\ change[k] = Missing
        present == SelectSeq(order, LAMBDA k : ~Left(k))
    IN PyDict([i \in 1..Len(present) |->
                [key |-> present[i],
                 value |-> IF present[i] \in DOMAIN change
                           THEN change[present[i]]
                           ELSE PyInt(Position(present[i]) + offset)]])

Predict ==
    /\ record /= None
    /\ predicted = None
    /\ predicted' = predict_for_features(model_raises, record)
    /\ UNCHANGED <<record, model_raises, walkVars, extractVars, loopVars>>

InitPredict ==
    /\ \E order \in Orders(MaxSwaps), change \in Changes, offset \in 0..MaxOffset :
            record = Record(order, change, offset)
    /\ model_raises \in BOOLEAN
    /\ predicted = None
    /\ IdleWalk /\ IdleExtract /\ IdleLoop

NextPredict == Predict

SpecPredict == InitPredict /\ [][NextPredict]_vars

----------------------------------------------------------------------------
\* The per-file processing loop ("for file_path in files_to_process").  What
\* a path holds is found when the file is read.

\* a file that open() cannot read
SampleUnreadable == Unreadable
\* "def f(:\n"
SampleInvalid == Readable(Text(1, FALSE, <<>>))
\* the empty file
SampleEmpty == Readable(Text(0, TRUE, <<>>))
\* "from . import x\n"
SampleRelativeImport ==
    Readable(Text(1, TRUE, <<[node |-> ImportFrom(None), parent |-> 0]>>))
\* "import os\nfrom . import x\n"
SampleImports ==
    Readable(Text(2, TRUE, <<[node |-> Import(<<Str(<<"os">>)>>), parent |-> 0],
                             [node |-> ImportFrom(None), parent |-> 0]>>))
\* "for i in range(3):\n    for j in range(3):\n        open('f')\n"
SampleLoops ==
    Readable(Text(3, TRUE, <<[node |-> Stmt("For"), parent |-> 0],
                             [node |-> Stmt("For"), parent |-> 1],
                             [node |-> CallName("open"), parent |-> 2]>>))

SampleFiles ==
    {SampleUnreadable, SampleInvalid, SampleEmpty, SampleRelativeImport,
     SampleImports, SampleLoops}

\* truth value of features_dict and of source_code
Bool(x) ==
    IF x = None THEN FALSE
    ELSE IF x.t = "dict" THEN x.items /= <<>>
    ELSE x.lines /= 0

\* lines 364-374: the next file is handed to
\* extract_features_and_code_from_file; an exception it lets through ends
\* the script
LoopExtract ==
    /\ pc = "for"
    /\ \E f \in SampleFiles :
        LET r == extract_features_and_code_from_file(f)
        IN /\ extract_calls' = Append(extract_calls, [file |-> files_to_process[idx], result |-> r])
           /\ IF r.outcome = "raise"
              THEN /\ pc' = "crashed"
                   /\ UNCHANGED <<features_dict, source_code>>
              ELSE /\ pc' = "if_features"
                   /\ features_dict' = r.features_dict
                   /\ source_code' = r.source_code
    /\ UNCHANGED <<files_to_process, idx, prediction, predict_calls, recommend_calls,
                   walkVars, extractVars, predictVars>>

\* lines 376-383: "if features_dict and source_code" holds, the features are
\* shown and predict_for_features is called
LoopPredict ==
    /\ pc = "if_features"
    /\ Bool(features_dict) /\ Bool(source_code)
    /\ \E raises \in BOOLEAN :
        prediction' = predict_for_features(raises, features_dict).returns
    /\ predict_calls' = Append(predict_calls,
            [file |-> files_to_process[idx], features_dict |-> features_dict])
    /\ pc' = "if_prediction"
    /\ UNCHANGED <<files_to_process, idx, features_dict, source_code, extract_calls,
                   recommend_calls, walkVars, extractVars, predictVars>>

\* line 376: "if features_dict and source_code" fails, nothing is shown
LoopSkipFile ==
    /\ pc = "if_features"
    /\ ~(Bool(features_dict) /\ Bool(source_code))
    /\ pc' = "divider"
    /\ UNCHANGED <<files_to_process, idx, features_dict, source_code, prediction,
                   extract_calls, predict_calls, recommend_calls,
                   walkVars, extractVars, predictVars>>

\* lines 385-395: "if prediction is not None" holds, the prediction is shown
\* and get_openai_recommendations is called; it returns a str whatever happens
LoopRecommend ==
    /\ pc = "if_prediction"
    /\ prediction /= None
    /\ recommend_calls' = Append(recommend_calls,
            [file |-> files_to_process[idx], source_code |-> source_code,
             features_dict |-> features_dict])
    /\ pc' = "divider"
    /\ UNCHANGED <<files_to_process, idx, features_dict, source_code, prediction,
                   extract_calls, predict_calls, walkVars, extractVars, predictVars>>

\* line 385: "if prediction is not None" fails
LoopSkipRecommend ==
    /\ pc = "if_prediction"
    /\ prediction = None
    /\ pc' = "divider"
    /\ UNCHANGED <<files_to_process, idx, features_dict, source_code, prediction,
                   extract_calls, predict_calls, recommend_calls,
                   walkVars, extractVars, predictVars>>

\* line 400: st.divider(), and the loop moves on to the next file or ends
LoopDivider ==
    /\ pc = "divider"
    /\ idx' = idx + 1
    /\ pc' = IF idx + 1 > Len(files_to_process) THEN "done" ELSE "for"
    /\ UNCHANGED <<files_to_process, features_dict, source_code, prediction,
                   extract_calls, predict_calls, recommend_calls,
                   walkVars, extractVars, predictVars>>

\* lines 251-361: files_to_process holds the paths found; an empty list is
\* reported and nothing is processed
Init ==
    /\ \E n \in 0..MaxFiles :
        /\ files_to_process = [i \in 1..n |-> i]
        /\ pc = IF n = 0 THEN "done" ELSE "for"
    /\ idx = 1
    /\ features_dict = None /\ source_code = None /\ prediction = None
    /\ extract_calls = <<>> /\ predict_calls = <<>> /\ recommend_calls = <<>>
    /\ IdleWalk /\ IdleExtract /\ IdlePredict

Next ==
    \/ LoopExtract
    \/ LoopPredict
    \/ LoopSkipFile
    \/ LoopRecommend
    \/ LoopSkipRecommend
    \/ LoopDivider

Spec == Init /\ [][Next]_vars

----------------------------------------------------------------------------
\* Properties of the per-file processing loop (Spec)

Processed(path) == \E j \in 1..Len(extract_calls) : extract_calls[j].file = path

\* C1: one file's failure never aborts the batch: once the loop has stopped,
\* in whatever way, extract_features_and_code_from_file has been called on
\* every file of files_to_process.
C1_FailureNeverAbortsBatch ==
    pc \in {"done", "crashed"} =>
        \A i \in 1..Len(files_to_process) : Processed(files_to_process[i])

CallsFor(calls, path, d) ==
    Cardinality({j \in 1..Len(calls) : calls[j].file = path /\ calls[j].features_dict = d})

\* C6: once the loop has moved on from a file whose extraction produced a
\* feature record (an empty file's included), predict_for_features and
\* get_openai_recommendations have each been called exactly once with that
\* record, and neither has been called for that file with anything else.
C6_RecordConsumedOnce ==
    \A j \in 1..Len(extract_calls) :
        (/\ j < idx
         /\ extract_calls[j].result.outcome = "return"
         /\ extract_calls[j].result.features_dict /= None)
        => LET path == extract_calls[j].file
               d == extract_calls[j].result.features_dict
           IN /\ CallsFor(predict_calls, path, d) = 1
              /\ CallsFor(recommend_calls, path, d) = 1
              /\ \A c \in 1..Len(predict_calls) :
                    predict_calls[c].file = path => predict_calls[c].features_dict = d
              /\ \A c \in 1..Len(recommend_calls) :
                    recommend_calls[c].file = path => recommend_calls[c].features_dict = d

----------------------------------------------------------------------------
\* Properties of extract_features_and_code_from_file (SpecExtract)

Returned == extracted /= None /\ extracted.outcome = "return"
Produced == Returned /\ extracted.features_dict /= None
Feature(key) == Field(extracted.features_dict, key).v

\* C2: the call ends in one of exactly three ways: (None, None) if and only
\* if the file could not be read, (None, text) for a text that does not
\* parse, (record, text) for every text that parses; a readable file never
\* makes it end any other way.
C2_ThreeOutcomes ==
    extracted /= None =>
        /\ extracted.outcome = "return"
        /\ (extracted.features_dict = None /\ extracted.source_code = None) <=> ~file.readable
        /\ (file.readable /\ ~file.text.parses) =>
                extracted.features_dict = None /\ extracted.source_code = file.text
        /\ (file.readable /\ file.text.parses) =>
                extracted.features_dict /= None /\ extracted.source_code = file.text

\* the program without its leaf node k
Without(t, k) ==
    [i \in 1..(Len(t) - 1) |->
        LET n == IF i < k THEN t[i] ELSE t[i + 1]
        IN [n EXCEPT !.parent = IF @ > k THEN @ - 1 ELSE @]]

RelativeImports(t) ==
    {k \in 1..Len(t) : t[k].node.kind = "ImportFrom" /\ t[k].node.module = None}

\* C3: a "from . import x" is skipped wherever it stands among the imports:
\* extraction yields a feature record, and the set of imported names and
\* Import_Score are those of the program without the statement.
C3_RelativeImportSkipped ==
    (extracted /= None /\ file.readable /\ file.text.parses) =>
        \A k \in RelativeImports(file.text.ast) :
            LET without == Without(file.text.ast, k)
                other == extract_features_and_code_from_file(
                            Readable(Text(file.text.lines, TRUE, without)))
            IN /\ Produced
               /\ other.outcome = "return"
               /\ import_loop(file.text.ast).imported_libs = import_loop(without).imported_libs
               /\ Feature("Import_Score") = Field(other.features_dict, "Import_Score").v

LoopNodes(t) == {n \in 1..Len(t) : t[n].node.kind \in {"For", "While"}}

\* C7: in every feature record produced, Loop_Nesting_Depth <= No_of_Loops,
\* all eight fields are >= 0, and both loop fields are 0 when the program
\* has no for and no while.
C7_FeatureBounds ==
    Produced =>
        /\ Feature("Loop_Nesting_Depth") <= Feature("No_of_Loops")
        /\ \A i \in 1..Len(extracted.features_dict.items) :
                extracted.features_dict.items[i].value.v >= 0
        /\ Len(extracted.features_dict.items) = 8
        /\ LoopNodes(file.text.ast) = {} =>
                Feature("Loop_Nesting_Depth") = 0 /\ Feature("No_of_Loops") = 0

\* a record of three loops nested two deep
C7_Witness ==
    /\ Produced
    /\ Feature("No_of_Loops") = 3
    /\ Feature("Loop_Nesting_Depth") = 2

\* the first dotted segment of every alias of every plain import and of the
\* module of every from-import
FirstSegments(t) ==
    UNION {IF t[n].node.kind = "Import"
           THEN {Str(<<t[n].node.names[a].s[1]>>) : a \in 1..Len(t[n].node.names)}
           ELSE IF t[n].node.kind = "ImportFrom" /\ t[n].node.module /= None
           THEN {Str(<<t[n].node.module.s[1]>>)}
           ELSE {} : n \in 1..Len(t)}

RECURSIVE TableSum(_)
TableSum(segments) ==
    IF segments = {} THEN 0
    ELSE LET x == CHOOSE y \in segments : TRUE
         IN (IF x \in DOMAIN library_weights THEN library_weights[x] ELSE 2)
            + TableSum(segments \ {x})

\* C8: Import_Score is the sum, over the set of distinct first dotted
\* segments of the imported module paths, of the segment's weight in the
\* table, 2 for a segment not in it: a library imported by two paths counts
\* once, and a program with no imports scores 0.
C8_ImportScore ==
    Produced =>
        /\ Feature("Import_Score") = TableSum(FirstSegments(file.text.ast))
        /\ FirstSegments(file.text.ast) = {} => Feature("Import_Score") = 0

\* "import torch" and "from torch.nn import ..." in one program score 10
C8_Witness ==
    /\ Produced
    /\ \E n, m \in 1..Len(file.text.ast) :
        /\ file.text.ast[n].node = Import(<<Str(<<"torch">>)>>)
        /\ file.text.ast[m].node = ImportFrom(Str(<<"torch", "nn">>))
    /\ FirstSegments(file.text.ast) = {Str(<<"torch">>)}
    /\ Feature("Import_Score") = 10

\* the module paths the program imports: every alias of every plain import
\* and the module of every from-import
ImportedPaths(t) ==
    UNION {IF t[n].node.kind = "Import"
           THEN {t[n].node.names[a] : a \in 1..Len(t[n].node.names)}
           ELSE IF t[n].node.kind = "ImportFrom" /\ t[n].node.module /= None
           THEN {t[n].node.module}
           ELSE {} : n \in 1..Len(t)}

\* the path is the library the table key names, or a module inside it
Names(path, key) ==
    /\ Len(key.s) <= Len(path.s)
    /\ SubSeq(path.s, 1, Len(key.s)) = key.s

\* the keys looked up in the table never have a dot
ImportedLibsHaveNoDot ==
    Produced => \A lib \in import_loop(file.text.ast).imported_libs : Len(lib.s) = 1

\* C11: every entry of library_weights is attainable: a program that imports
\* the library a table key names has an import statement whose computed
\* lookup key equals that key, so that the key is among imported_libs and
\* Import_Score counts the entry's weight instead of the default 2 (for
\* "google.cloud", 6).
C11_EveryEntryAttainable ==
    Produced =>
        \A key \in DOMAIN library_weights :
            (\E path \in ImportedPaths(file.text.ast) : Names(path, key)) =>
                /\ \E path \in ImportedPaths(file.text.ast) : top_level(path) = key
                /\ key \in import_loop(file.text.ast).imported_libs
                /\ (\A path \in ImportedPaths(file.text.ast) : Names(path, key)) =>
                        Feature("Import_Score") = library_weights[key]

----------------------------------------------------------------------------
\* Properties of FeatureExtractor (SpecWalk)

Walked == stack = <<>>

IONames == {"open", "read", "write", "remove", "rename", "copy", "seek", "tell", "flush"}

IOCall(node) ==
    /\ node.kind = "Call"
    /\ \/ node.func.kind = "Name" /\ node.func.id \in IONames
       \/ node.func.kind = "Attribute" /\ node.func.attr \in IONames

\* the traversal step by step ends where the traversal as one call does
VisitorsAgree ==
    Walked => FeatureExtractor_visit(tree) =
                [max_loop_depth |-> max_loop_depth, current_depth |-> current_depth,
                 file_io_calls |-> file_io_calls]

\* C9: after the traversal file_io_calls is the number of calls anywhere in
\* the tree, those inside other calls included, whose callee is a bare name
\* or an attribute access named open, read, write, remove, rename, copy,
\* seek, tell or flush; no other call is counted.
C9_IOCallCount ==
    Walked => file_io_calls = Cardinality({n \in 1..Len(tree) : IOCall(tree[n].node)})

\* open(x.read(), y.readline()): two of the three calls are counted
C9_Witness ==
    /\ Walked
    /\ Len(tree) = 3
    /\ tree[1].node = CallName("open")
    /\ tree[2] = [node |-> CallAttribute("read"), parent |-> 1]
    /\ tree[3] = [node |-> CallAttribute("readline"), parent |-> 1]
    /\ file_io_calls = 2

\* the number of for and while nodes from the Module down to n
LoopsDownTo(t, n) == Cardinality(Path(t, n) \cap LoopNodes(t))

Deepest(t) ==
    CHOOSE d \in {LoopsDownTo(t, n) : n \in 0..Len(t)} :
        \A n \in 0..Len(t) : LoopsDownTo(t, n) <= d

\* C10: at every step of the traversal 0 <= current_depth <= max_loop_depth;
\* after it max_loop_depth is the greatest number of for and while nodes on
\* a path from the root and current_depth is 0 again.  A while right inside
\* a for gives 2 (of 2 loops), three loops side by side give 1 (of 3).
C10_LoopDepth ==
    /\ 0 <= current_depth
    /\ current_depth <= max_loop_depth
    /\ Walked => max_loop_depth = Deepest(tree) /\ current_depth = 0
    /\ (Walked /\ tree = <<[node |-> Stmt("For"), parent |-> 0],
                           [node |-> Stmt("While"), parent |-> 1]>>)
            => max_loop_depth = 2 /\ num_loops(tree) = 2
    /\ (Walked /\ Len(tree) = 3 /\ LoopNodes(tree) = {1, 2, 3}
               /\ \A n \in 1..3 : tree[n].parent = 0)
            => max_loop_depth = 1 /\ num_loops(tree) = 3

\* a while right inside a for, walked
C10_Witness ==
    /\ Walked
    /\ tree = <<[node |-> Stmt("For"), parent |-> 0],
                [node |-> Stmt("While"), parent |-> 1]>>
    /\ max_loop_depth = 2
    /\ current_depth = 0

----------------------------------------------------------------------------
\* Properties of predict_for_features (SpecPredict)

FieldOrder ==
    <<"LOC", "No_of_Functions", "No_of_Classes", "No_of_Loops", "Loop_Nesting_Depth",
      "No_of_Conditional_Blocks", "Import_Score", "I/O Calls">>

Has(d, key) == \E i \in 1..Len(d.items) : d.items[i].key = key

\* C4: whenever model.predict is called, its one row has exactly 8 values in
\* the order LOC, functions, classes, loops, nesting depth, conditionals,
\* import score, I/O calls, each the record's value for that field (a str of
\* digits as the number it denotes), whatever order the keys were inserted in.
C4_FixedOrder ==
    predicted /= None =>
        \A c \in 1..Len(predicted.model_calls) :
            LET row == predicted.model_calls[c]
            IN /\ Len(row) = 8
               /\ \A i \in 1..8 :
                    /\ Has(record, FieldOrder[i])
                    /\ LET v == Field(record, FieldOrder[i])
                       IN /\ v.t = "int" => row[i] = v
                          /\ v = PyStr(<<"1", "2">>) => row[i] = PyInt(12)

\* the model was called for a record whose keys were not inserted in the
\* order of FEATURES_ORDER
C4_Witness ==
    /\ predicted /= None
    /\ Len(predicted.model_calls) = 1
    /\ Len(record.items) = 8
    /\ \E i \in 1..8 : record.items[i].key /= FieldOrder[i]

IsNumber(d, key) == Has(d, key) /\ Field(d, key).t = "int"

Coerces(d, key) ==
    Has(d, key) /\ (Field(d, key).t = "int" \/ Field(d, key) = PyStr(<<"1", "2">>))

====
